---- MODULE Spec2Model ----
(***************************************************************************)
(* The encrypted, decentralized key-value store of the tutorial notebook   *)
(* "Part 6 - Build an Encrypted, Decentralized Database": the two          *)
(* DecentralizedDB classes (hashed-scalar keys, Section 6; one-hot keys,   *)
(* Section 7), their encoders and their query protocol.                    *)
(*                                                                         *)
(* A string is a sequence of one-character strings.  A tensor is a         *)
(* sequence of integers (a one-hot key is a sequence of rows).  A shared   *)
(* tensor is a record holding the owners and the value the shares          *)
(* reconstruct to; what a party receives is recorded in its inbox.         *)
(***************************************************************************)
EXTENDS Integers, Sequences, FiniteSets, TLC

\* ------------------------------------------------------------- bounds
\* The store holds at most MaxEntries records.
MaxEntries == 2
\* Stand-in for the interpreter's recursion limit: the depth at which the
\* recursive retry of query raises RecursionError.
RecursionLimit == 3
\* The retry ceiling R the specification asks for (the code has none).
max_retries == 1
\* Stand-in for sy.mpc.securenn.field, the modulus of the sharing ring.
Field == 1000
\* max_key_len and max_value_len of the one-hot DecentralizedDB.
max_key_len == 2
max_value_len == 2

\* ------------------------------------------------------------ alphabet
\* The characters of the model: a sample of each class of the tables, in
\* the tables' order; TAB is a character of neither table.
TAB == "\t"
Chars == {" ", "a", "b", "A", ".", "~", TAB}

\* ' ' + string.ascii_letters + '0123456789' + string.punctuation
Int2CharHashed == <<" ", "a", "b", "A", ".", "~">>
\* ' ' + string.ascii_lowercase + '0123456789' + string.punctuation
Int2CharOneHot == <<" ", "a", "b", ".", "~">>

\* The int2char table bound at module level when the class of the strategy
\* runs (the one-hot cell rebinds char2int and int2char).
int2char(st) == IF st = "hashed_scalar" THEN Int2CharHashed ELSE Int2CharOneHot

\* c in char2int
InTable(table, c) == \E i \in 1..Len(table) : table[i] = c

\* char2int[c], for c in the table
char2int(table, c) == (CHOOSE i \in 1..Len(table) : table[i] = c) - 1

\* str.lower on one character
lowerChar(c) == IF c = "A" THEN "a" ELSE c

\* str.lower
lower(s) == [i \in 1..Len(s) |-> lowerChar(s[i])]

Min(a, b) == IF a < b THEN a ELSE b

\* str_input[:max_len]
Truncate(s, max_len) == SubSeq(s, 1, Min(Len(s), max_len))

\* str_input + "." * (max_len - len(str_input)), when shorter than max_len
PadDots(s, max_len) ==
    IF Len(s) < max_len
    THEN s \o [i \in 1..(max_len - Len(s)) |-> "."]
    ELSE s

\* The outcome of a call: a value, or the exception it raised.
Ok(v) == [ok |-> TRUE, val |-> v, err |-> ""]
Raise(e) == [ok |-> FALSE, val |-> <<>>, err |-> e]

\* ------------------------------------------------------------ encoders
\* hash(input_str): Python's built-in string hash, a fixed function within
\* a process.  "a" and "abb" collide modulo Field.
Hash(s) ==
    IF s = <<"a">> THEN 7
    ELSE IF s = <<"A">> THEN 11
    ELSE IF s = <<"a", "b", "b">> THEN 7 + Field
    ELSE 13 + Len(s)

\* string2key of the hashed-scalar cell: a tensor of one element.
string2key(input_str) == <<(Hash(input_str) + 1234) % Field>>

\* string2values of the hashed-scalar cell: no truncation, no padding.
string2valuesHashed(input_str) ==
    IF \E i \in 1..Len(input_str) : ~InTable(Int2CharHashed, input_str[i])
    THEN Raise("KeyError")
    ELSE Ok([i \in 1..Len(input_str) |-> char2int(Int2CharHashed, input_str[i])])

\* one_hot(index, length): index is 0-based.
one_hot(index, length) == [j \in 1..length |-> IF j = index + 1 THEN 1 ELSE 0]

\* The string string2one_hot_matrix and string2values of the one-hot cell
\* encode: truncated, lower-cased, padded with ".".
Normalize(str_input, max_len) == PadDots(lower(Truncate(str_input, max_len)), max_len)

\* A string2one_hot_matrix that cuts the string one character short of
\* max_len.
string2one_hot_matrixCutShort(str_input, max_len) ==
    LET s == PadDots(lower(Truncate(str_input, max_len - 1)), max_len)
    IN  IF \E i \in 1..Len(s) : ~InTable(Int2CharOneHot, s[i])
        THEN Raise("KeyError")
        ELSE Ok([i \in 1..Len(s) |->
                   one_hot(char2int(Int2CharOneHot, s[i]), Len(Int2CharOneHot))])

\* string2one_hot_matrix
string2one_hot_matrix(str_input, max_len) ==
    LET s == Normalize(str_input, max_len)
    IN  IF \E i \in 1..Len(s) : ~InTable(Int2CharOneHot, s[i])
        THEN Raise("KeyError")
        ELSE Ok([i \in 1..Len(s) |->
                   one_hot(char2int(Int2CharOneHot, s[i]), Len(Int2CharOneHot))])

\* string2values as it would be without the padding step (the hashed-scalar
\* cell's behaviour over the one-hot table): truncated and lower-cased only.
string2valuesNoPad(str_input, max_len) ==
    LET s == lower(Truncate(str_input, max_len))
    IN  IF \E i \in 1..Len(s) : ~InTable(Int2CharOneHot, s[i])
        THEN Raise("KeyError")
        ELSE Ok([i \in 1..Len(s) |-> char2int(Int2CharOneHot, s[i])])

\* string2values of the one-hot cell
string2valuesOneHot(str_input, max_len) ==
    LET s == Normalize(str_input, max_len)
    IN  IF \E i \in 1..Len(s) : ~InTable(Int2CharOneHot, s[i])
        THEN Raise("KeyError")
        ELSE Ok([i \in 1..Len(s) |-> char2int(Int2CharOneHot, s[i])])

\* A values2string that brings a code back into the table instead of
\* testing that it is there.
values2stringWrap(table, input_values) ==
    [i \in 1..Len(input_values) |->
        table[(input_values[i] % Len(table)) + 1]]

\* values2string of the hashed-scalar cell, the one in force for both
\* classes: a code outside int2char decodes to ".".
values2string(table, input_values) ==
    [i \in 1..Len(input_values) |->
        IF input_values[i] \in 0..(Len(table) - 1)
        THEN table[input_values[i] + 1]
        ELSE "."]

\* result.replace(".", "")
RECURSIVE StripDots(_)
StripDots(s) ==
    IF s = <<>> THEN <<>>
    ELSE IF Head(s) = "." THEN StripDots(Tail(s))
    ELSE <<Head(s)>> \o StripDots(Tail(s))

\* set(result)
CharSet(s) == {s[i] : i \in 1..Len(s)}

\* ----------------------------------------------------------- substrate
\* The owners a DecentralizedDB is constructed with.
Owners == {"bob", "alice"}

\* tensor.share(*owners): every owner holds one additive share; the shares
\* reconstruct to plain.
share(t, owners) == [form |-> "shared", owners |-> owners, plain |-> t]

\* tensor.send(*owners): every owner holds a copy of the tensor itself.
send(t, owners) == [form |-> "plain", owners |-> owners, plain |-> t]

\* No tensor (a local not yet assigned).
NoTensor == [form |-> "none", owners |-> {}, plain |-> <<>>]

\* What one owner receives when tensor st (of role what) is distributed: an
\* additive share shows its shape only, a sent tensor shows its contents.
Received(what, st) ==
    [what  |-> what,
     form  |-> st.form,
     shape |-> Len(st.plain),
     plain |-> IF st.form = "plain" THEN st.plain ELSE <<>>]

\* The inboxes after st is distributed to its owners.
Deliver(box, what, st) ==
    [p \in Owners |-> IF p \in st.owners
                      THEN box[p] \cup {Received(what, st)}
                      ELSE box[p]]

\* A scalar the equality protocol can produce instead of 1 when its
\* reconstruction goes wrong: every non-zero code times it is off the table.
Garbage == Len(Int2CharHashed) + 1

\* (key == qhash) on two shared scalars: 1 or 0, times the noise of the
\* reconstruction (1 when there is none).
Equal(key, qhash, noise) == IF key[1] = qhash[1] THEN noise ELSE 0

\* (key * query).sum(1)[i]: the dot product of row i of the two matrices.
RECURSIVE Dot(_, _)
Dot(a, b) ==
    IF a = <<>> THEN 0
    ELSE (Head(a) * Head(b) + Dot(Tail(a), Tail(b))) % Field

RowSums(key, query) == [i \in 1..Len(key) |-> Dot(key[i], query[i])]

\* A reduction that adds where the loop multiplies.
RECURSIVE MulFromAdd(_, _, _)
MulFromAdd(x, vect, i) ==
    IF i > Len(vect) THEN x
    ELSE MulFromAdd((x + vect[i]) % Field, vect, i + 1)

\* x = vect[0]; for i in range(n): x = x * vect[i]
RECURSIVE MulFrom(_, _, _)
MulFrom(x, vect, i) ==
    IF i > Len(vect) THEN x
    ELSE MulFrom((x * vect[i]) % Field, vect, i + 1)

OneHotMatch(key, query) ==
    LET vect == RowSums(key, query)
    IN  MulFrom(vect[1], vect, 1)

\* The values x takes in the loop of OneHotMatch: vect[0], then x after
\* each iteration.
RunningProducts(vect) ==
    <<vect[1]>> \o [i \in 1..Len(vect) |->
                      MulFrom(vect[1], SubSeq(vect, 1, i), 1)]

\* km.expand(1, shape[0])[0] * value
Mask(km, value) == [j \in 1..Len(value) |-> (km * value[j]) % Field]

\* final_value + v: tensors of one length add elementwise; of different
\* lengths (none of length 1 occurs here) the addition raises.
AddTensors(a, b) ==
    IF Len(a) = Len(b)
    THEN Ok([j \in 1..Len(a) |-> (a[j] + b[j]) % Field])
    ELSE Raise("RuntimeError")

\* final_value = value_match[0]; for v in value_match[1:]: final_value + v
RECURSIVE SumFrom(_, _, _)
SumFrom(acc, vm, i) ==
    IF i > Len(vm) THEN Ok(acc)
    ELSE LET r == AddTensors(acc, vm[i])
         IN  IF r.ok THEN SumFrom(r.val, vm, i + 1) ELSE r

\* A sum that starts from an empty tensor, so that no value gives the empty
\* tensor instead of an exception.
SumValuesFromNothing(vm) ==
    IF vm = <<>> THEN Ok(<<>>)
    ELSE SumFrom(vm[1], vm, 2)

SumValues(vm) ==
    IF vm = <<>> THEN Raise("IndexError")
    ELSE SumFrom(vm[1], vm, 2)

\* --------------------------------------------------------------- state
VARIABLES
    strategy,     \* which DecentralizedDB class: "hashed_scalar" or "one_hot"
    keys,         \* self.keys
    values,       \* self.values
    entries,      \* history: the (string_key, string_value) of each record
    inbox,        \* what each owner has received
    pc,           \* where the query in progress is
    query_str,    \* the argument of the query
    attempts,     \* depth of the recursion of query (1 = the first call)
    query,        \* the encoded, distributed query
    key_match,    \* key_match (the scalars the shares reconstruct to)
    value_match,  \* value_match
    final_value,  \* final_value
    responded,    \* owners that have supplied their share to get()
    revealed,     \* final_value.get()
    result,       \* what query returned
    error,        \* the exception the last call raised, "" if none
    all_sentinel, \* history: every decode of this query so far was all "."
    rt_in,        \* round trip: the string given to the value encoder
    rt_enc,       \* round trip: the encoder's outcome
    rt_dec,       \* round trip: values2string of the encoding
    mt_key,       \* key match: the string of the stored key
    mt_query,     \* key match: the string of the query
    mt_out,       \* key match: the row sums, running products and scalar
    dc_in,        \* decode: the codes given to values2string
    dc_out,       \* decode: its outcome
    add_pc,       \* where the add_entry of a second thread is
    add_key,      \* its local key
    add_value,    \* its local value
    add_strs,     \* history: its arguments
    calls         \* history: the share/send and get calls of this query

\* The variables of the value round trip and of the key match, those of a
\* second thread's add_entry, and those of the database.
codec == <<rt_in, rt_enc, rt_dec, mt_key, mt_query, mt_out, dc_in, dc_out>>

adder == <<add_pc, add_key, add_value, add_strs>>

db == <<keys, values, entries, inbox, pc, query_str, attempts, query,
        key_match, value_match, final_value, responded, revealed, result,
        error, all_sentinel, calls>>

vars == <<strategy, db, codec, adder>>

\* The encoder has not run.
NotRun == [ok |-> FALSE, val |-> <<>>, err |-> "not run"]

\* The strings the calls are made with.
KeyInputs == {<<"a">>, <<"A">>, <<"b">>, <<"a", "b", "b">>}
ValueInputs == {<<"a", " ">>, <<"A", ".">>, <<"~", "~">>, <<"a", "b", "~">>,
                <<TAB>>}

Strategies == {"hashed_scalar", "one_hot"}

\* No call is in progress.
AtRest == pc \in {"Idle", "Done", "Raised"}

\* DecentralizedDB.__init__
Init ==
    /\ strategy \in Strategies
    /\ keys = <<>>
    /\ values = <<>>
    /\ entries = <<>>
    /\ inbox = [p \in Owners |-> {}]
    /\ pc = "Idle"
    /\ query_str = <<>>
    /\ attempts = 0
    /\ query = NoTensor
    /\ key_match = <<>>
    /\ value_match = <<>>
    /\ final_value = <<>>
    /\ responded = {}
    /\ revealed = <<>>
    /\ result = <<>>
    /\ error = ""
    /\ all_sentinel = TRUE
    /\ rt_in = <<>>
    /\ rt_enc = NotRun
    /\ rt_dec = <<>>
    /\ mt_key = <<>>
    /\ mt_query = <<>>
    /\ mt_out = NotRun
    /\ dc_in = <<>>
    /\ dc_out = NotRun
    /\ add_pc = "Idle"
    /\ add_key = NoTensor
    /\ add_value = NoTensor
    /\ add_strs = <<>>
    /\ calls = <<>>

\* The locals of a query attempt, before it assigns them.
FreshLocals ==
    /\ query' = NoTensor
    /\ key_match' = <<>>
    /\ value_match' = <<>>
    /\ final_value' = <<>>
    /\ responded' = {}
    /\ revealed' = <<>>

\* The key and the value encodings of add_entry, by strategy.
EncodeKey(st, string_key) ==
    IF st = "hashed_scalar"
    THEN Ok(string2key(string_key))
    ELSE string2one_hot_matrix(string_key, max_key_len)

EncodeValue(st, string_value) ==
    IF st = "hashed_scalar"
    THEN string2valuesHashed(string_value)
    ELSE string2valuesOneHot(string_value, max_value_len)

\* An add_entry that keeps one record per key encoding: a key already
\* present has its value replaced.
add_entryDedup(string_key, string_value) ==
    /\ AtRest
    /\ Len(keys) < MaxEntries
    /\ LET k == EncodeKey(strategy, string_key)
           v == EncodeValue(strategy, string_value)
           key == share(k.val, Owners)
           value == share(v.val, Owners)
           same == {i \in 1..Len(keys) : keys[i].plain = k.val}
       IN  IF ~k.ok
           THEN /\ error' = k.err
                /\ UNCHANGED <<keys, values, entries, inbox>>
           ELSE IF ~v.ok
           THEN /\ error' = v.err
                /\ inbox' = Deliver(inbox, "key", key)
                /\ UNCHANGED <<keys, values, entries>>
           ELSE /\ error' = ""
                /\ inbox' = Deliver(Deliver(inbox, "key", key), "value", value)
                /\ keys' = IF same = {} THEN Append(keys, key) ELSE keys
                /\ values' = IF same = {} THEN Append(values, value)
                             ELSE [i \in 1..Len(values) |->
                                     IF i \in same THEN value ELSE values[i]]
                /\ entries' = Append(entries, <<string_key, string_value>>)
    /\ pc' = "Idle"
    /\ query_str' = <<>>
    /\ attempts' = 0
    /\ result' = <<>>
    /\ FreshLocals
    /\ all_sentinel' = TRUE
    /\ calls' = <<>>
    /\ UNCHANGED <<codec, adder, strategy>>

\* DecentralizedDB.add_entry: the key is encoded and shared, then the value,
\* then both are appended; an encoder that raises leaves the lists alone.
add_entry(string_key, string_value) ==
    /\ AtRest
    /\ Len(keys) < MaxEntries
    /\ LET k == EncodeKey(strategy, string_key)
           v == EncodeValue(strategy, string_value)
           key == share(k.val, Owners)
           value == share(v.val, Owners)
       IN  IF ~k.ok
           THEN /\ error' = k.err
                /\ UNCHANGED <<keys, values, entries, inbox>>
           ELSE IF ~v.ok
           THEN /\ error' = v.err
                /\ inbox' = Deliver(inbox, "key", key)
                /\ UNCHANGED <<keys, values, entries>>
           ELSE /\ error' = ""
                /\ inbox' = Deliver(Deliver(inbox, "key", key), "value", value)
                /\ keys' = Append(keys, key)
                /\ values' = Append(values, value)
                /\ entries' = Append(entries, <<string_key, string_value>>)
    /\ pc' = "Idle"
    /\ query_str' = <<>>
    /\ attempts' = 0
    /\ result' = <<>>
    /\ FreshLocals
    /\ all_sentinel' = TRUE
    /\ calls' = <<>>
    /\ UNCHANGED <<codec, adder, strategy>>

\* --------------------------------------------------------------- query
\* The caller invokes db.query(q).
QueryCall(q) ==
    /\ AtRest
    /\ pc' = "Encoding"
    /\ query_str' = q
    /\ attempts' = 1
    /\ result' = <<>>
    /\ error' = ""
    /\ FreshLocals
    /\ all_sentinel' = TRUE
    /\ calls' = <<>>
    /\ UNCHANGED <<codec, adder, strategy, keys, values, entries, inbox>>

\* The query's encoding, by strategy: string2key, or string2one_hot_matrix.
EncodeQuery(st, q) ==
    IF st = "hashed_scalar"
    THEN Ok(string2key(q))
    ELSE string2one_hot_matrix(q, max_key_len)

\* How the encoded query reaches the owners: the hashed-scalar class
\* shares it, the one-hot class sends it.
Distribute(st, t) ==
    IF st = "hashed_scalar" THEN share(t, Owners) ELSE send(t, Owners)

\* The call that distributes the query: share, or send.
DistributeCall(st) == IF st = "hashed_scalar" THEN "share" ELSE "send"

\* Encoding: the query string is encoded; a character off the table raises.
Encode ==
    /\ pc = "Encoding"
    /\ LET e == EncodeQuery(strategy, query_str)
       IN  IF e.ok
           THEN /\ query' = [NoTensor EXCEPT !.plain = e.val]
                /\ pc' = "Sharing"
                /\ error' = ""
           ELSE /\ query' = NoTensor
                /\ pc' = "Raised"
                /\ error' = e.err
    /\ UNCHANGED <<codec, adder, calls, all_sentinel, strategy, keys, values, entries,
                   inbox, query_str, attempts,
                   key_match, value_match, final_value, responded, revealed,
                   result>>

\* Sharing: the encoded query is distributed to the owners.
ShareQuery ==
    /\ pc = "Sharing"
    /\ query' = Distribute(strategy, query.plain)
    /\ inbox' = Deliver(inbox, "query", query')
    /\ calls' = Append(calls, <<attempts, DistributeCall(strategy), "query">>)
    /\ pc' = "Matching"
    /\ UNCHANGED <<codec, adder, all_sentinel, strategy, keys, values, entries,
                   query_str, attempts,
                   key_match, value_match, final_value, responded, revealed,
                   result, error>>

\* key_match of one record.
KeyMatch(st, key, q, noise) ==
    IF st = "hashed_scalar"
    THEN Equal(key.plain, q.plain, noise)
    ELSE OneHotMatch(key.plain, q.plain)

\* A matching that also calls get() on the match scalars.
MatchRevealing ==
    /\ pc = "Matching"
    /\ \E noise \in {1, Garbage} :
          /\ (strategy = "one_hot") => (noise = 1)
          /\ key_match' = [i \in 1..Len(keys) |->
                              KeyMatch(strategy, keys[i], query, noise)]
    /\ calls' = Append(calls, <<attempts, "get", "key_match">>)
    /\ pc' = "Masking"
    /\ UNCHANGED <<codec, adder, all_sentinel, strategy, keys, values, entries,
                   inbox, query_str, attempts,
                   query, value_match, final_value, responded, revealed,
                   result, error>>

\* Matching: one match scalar per key.  The equality protocol of the
\* hashed-scalar class may reconstruct wrongly (noise); the products of the
\* one-hot class are exact.
Match ==
    /\ pc = "Matching"
    /\ \E noise \in {1, Garbage} :
          /\ (strategy = "one_hot") => (noise = 1)
          /\ key_match' = [i \in 1..Len(keys) |->
                              KeyMatch(strategy, keys[i], query, noise)]
    /\ pc' = "Masking"
    /\ UNCHANGED <<codec, adder, calls, all_sentinel, strategy, keys, values, entries,
                   inbox, query_str, attempts,
                   query, value_match, final_value, responded, revealed,
                   result, error>>

\* A masking that multiplies in place: the stored value becomes the masked
\* one.
MaskValuesInPlace ==
    /\ pc = "Masking"
    /\ IF Len(values) <= Len(key_match)
       THEN /\ value_match' = [i \in 1..Len(values) |->
                                 Mask(key_match[i], values[i].plain)]
            /\ values' = [i \in 1..Len(values) |->
                            share(value_match'[i], Owners)]
            /\ pc' = "Aggregating"
            /\ error' = ""
       ELSE /\ value_match' = <<>>
            /\ values' = values
            /\ pc' = "Raised"
            /\ error' = "IndexError"
    /\ UNCHANGED <<codec, adder, calls, all_sentinel, strategy, keys, entries,
                   inbox, query_str, attempts,
                   query, key_match, final_value, responded, revealed,
                   result>>

\* Masking: each value times its record's match scalar; a value past the
\* end of key_match raises.
MaskValues ==
    /\ pc = "Masking"
    /\ IF Len(values) <= Len(key_match)
       THEN /\ value_match' = [i \in 1..Len(values) |->
                                 Mask(key_match[i], values[i].plain)]
            /\ pc' = "Aggregating"
            /\ error' = ""
       ELSE /\ value_match' = <<>>
            /\ pc' = "Raised"
            /\ error' = "IndexError"
    /\ UNCHANGED <<codec, adder, calls, all_sentinel, strategy, keys, values, entries,
                   inbox, query_str, attempts,
                   query, key_match, final_value, responded, revealed,
                   result>>

\* Aggregating: the masked values are summed; an empty store and values of
\* different lengths raise.
Aggregate ==
    /\ pc = "Aggregating"
    /\ LET r == SumValues(value_match)
       IN  IF r.ok
           THEN /\ final_value' = r.val
                /\ pc' = "Revealing"
                /\ error' = ""
           ELSE /\ final_value' = <<>>
                /\ pc' = "Raised"
                /\ error' = r.err
    /\ UNCHANGED <<codec, adder, calls, all_sentinel, strategy, keys, values, entries,
                   inbox, query_str, attempts,
                   query, key_match, value_match, responded, revealed, result>>

\* Revealing: final_value.get() asks every owner for its share; owner p
\* supplies it.
Respond(p) ==
    /\ pc = "Revealing"
    /\ p \notin responded
    /\ responded' = responded \cup {p}
    /\ UNCHANGED <<codec, adder, calls, all_sentinel, strategy, keys, values, entries,
                   inbox, pc, query_str,
                   attempts, query, key_match, value_match, final_value,
                   revealed, result, error>>

\* A get() that would return once one owner's share is in.
NeededOne == {CHOOSE p \in Owners : TRUE}

\* The owners whose shares get() needs before it returns.
Needed == Owners

\* get() returns the reconstructed tensor once the needed shares are in.
Reveal ==
    /\ pc = "Revealing"
    /\ Needed \subseteq responded
    /\ revealed' = final_value
    /\ calls' = Append(calls, <<attempts, "get", "final_value">>)
    /\ pc' = "Decoding"
    /\ UNCHANGED <<codec, adder, all_sentinel, strategy, keys, values, entries,
                   inbox, query_str, attempts,
                   query, key_match, value_match, final_value, responded,
                   result, error>>

\* The characters list(set(result))[0] can be: the iteration order of a set
\* of strings is not fixed by the language.
FirstOfSet(s) == CharSet(s)

\* A retry that keeps the shared query of the attempt before and starts
\* again at the matching.
DecodeHashedReuse ==
    /\ pc = "Decoding"
    /\ strategy = "hashed_scalar"
    /\ LET r == values2string(int2char(strategy), revealed)
       IN  /\ all_sentinel' = (all_sentinel /\ CharSet(r) = {"."})
           /\ \E first \in FirstOfSet(r) :
             IF first = "."
             THEN IF attempts < RecursionLimit
                  THEN /\ pc' = "Matching"
                       /\ attempts' = attempts + 1
                       /\ key_match' = <<>>
                       /\ value_match' = <<>>
                       /\ final_value' = <<>>
                       /\ responded' = {}
                       /\ revealed' = <<>>
                       /\ UNCHANGED <<query, result, error>>
                  ELSE /\ pc' = "Raised"
                       /\ error' = "RecursionError"
                       /\ UNCHANGED <<result, attempts, query, key_match,
                                      value_match, final_value, responded,
                                      revealed>>
             ELSE /\ pc' = "Done"
                  /\ result' = r
                  /\ UNCHANGED <<error, attempts, query, key_match,
                                 value_match, final_value, responded,
                                 revealed>>
    /\ UNCHANGED <<codec, adder, calls, strategy, keys, values, entries, inbox, query_str>>

\* Decoding in the hashed-scalar class: when the inspected character is "."
\* the query calls itself again, else it returns the decoded string.
DecodeHashed ==
    /\ pc = "Decoding"
    /\ strategy = "hashed_scalar"
    /\ LET r == values2string(int2char(strategy), revealed)
       IN  /\ all_sentinel' = (all_sentinel /\ CharSet(r) = {"."})
           /\ \E first \in FirstOfSet(r) :
             IF first = "."
             THEN IF attempts < RecursionLimit
                  THEN /\ pc' = "Encoding"
                       /\ attempts' = attempts + 1
                       /\ FreshLocals
                       /\ UNCHANGED <<result, error>>
                  ELSE /\ pc' = "Raised"
                       /\ error' = "RecursionError"
                       /\ UNCHANGED <<result, attempts, query, key_match,
                                      value_match, final_value, responded,
                                      revealed>>
             ELSE /\ pc' = "Done"
                  /\ result' = r
                  /\ UNCHANGED <<error, attempts, query, key_match,
                                 value_match, final_value, responded,
                                 revealed>>
    /\ UNCHANGED <<codec, adder, calls, strategy, keys, values, entries, inbox, query_str>>

\* Decoding in the one-hot class: the decoded string without its dots.
DecodeOneHot ==
    /\ pc = "Decoding"
    /\ strategy = "one_hot"
    /\ LET r == values2string(int2char(strategy), revealed)
       IN  /\ result' = StripDots(r)
           /\ all_sentinel' = (all_sentinel /\ CharSet(r) = {"."})
    /\ pc' = "Done"
    /\ UNCHANGED <<codec, adder, calls, strategy, keys, values, entries, inbox, query_str, attempts,
                   query, key_match, value_match, final_value, responded,
                   revealed, error>>

Next ==
    \/ \E k \in KeyInputs, v \in ValueInputs : add_entry(k, v)
    \/ \E q \in KeyInputs : QueryCall(q)
    \/ Encode
    \/ ShareQuery
    \/ Match
    \/ MaskValues
    \/ Aggregate
    \/ \E p \in Owners : Respond(p)
    \/ Reveal
    \/ DecodeHashed
    \/ DecodeOneHot

Spec == Init /\ [][Next]_vars

\* ------------------------------------------- add_entry in a second thread
\* The arguments of the second thread's calls.
AddKeys == {<<"a">>, <<"b">>}
AddValues == {<<"a", " ">>, <<"~", "~">>, <<TAB>>}

\* add_entry, lines 1 and 2 of its body: the key is encoded and shared,
\* then the value; an encoder that raises ends the call.
AddShare(string_key, string_value) ==
    /\ add_pc \in {"Idle", "Raised"}
    /\ Len(keys) < MaxEntries
    /\ LET k == EncodeKey(strategy, string_key)
           v == EncodeValue(strategy, string_value)
           key == share(k.val, Owners)
           value == share(v.val, Owners)
       IN  IF ~k.ok
           THEN /\ add_pc' = "Raised"
                /\ UNCHANGED <<add_key, add_value, add_strs, inbox>>
           ELSE IF ~v.ok
           THEN /\ add_pc' = "Raised"
                /\ inbox' = Deliver(inbox, "key", key)
                /\ UNCHANGED <<add_key, add_value, add_strs>>
           ELSE /\ add_pc' = "Shared"
                /\ add_key' = key
                /\ add_value' = value
                /\ add_strs' = <<string_key, string_value>>
                /\ inbox' = Deliver(Deliver(inbox, "key", key), "value", value)
    /\ UNCHANGED <<codec, strategy, keys, values, entries, pc, query_str,
                   attempts, query, key_match, value_match, final_value,
                   responded, revealed, result, error, all_sentinel, calls>>

\* self.keys.append(key)
AppendKey ==
    /\ add_pc = "Shared"
    /\ keys' = Append(keys, add_key)
    /\ add_pc' = "KeyAppended"
    /\ UNCHANGED <<codec, strategy, values, entries, inbox, pc, query_str,
                   attempts, query, key_match, value_match, final_value,
                   responded, revealed, result, error, all_sentinel, calls,
                   add_key, add_value, add_strs>>

\* self.values.append(value), and the call returns.
AppendValue ==
    /\ add_pc = "KeyAppended"
    /\ values' = Append(values, add_value)
    /\ entries' = Append(entries, add_strs)
    /\ add_pc' = "Idle"
    /\ add_key' = NoTensor
    /\ add_value' = NoTensor
    /\ add_strs' = <<>>
    /\ UNCHANGED <<codec, strategy, keys, inbox, pc, query_str,
                   attempts, query, key_match, value_match, final_value,
                   responded, revealed, result, error, all_sentinel, calls>>

\* One thread calls query, a second thread calls add_entry: the steps of
\* the two interleave.
NextConcurrent ==
    \/ \E k \in AddKeys, v \in AddValues : AddShare(k, v)
    \/ AppendKey
    \/ AppendValue
    \/ \E q \in AddKeys : QueryCall(q)
    \/ Encode
    \/ ShareQuery
    \/ Match
    \/ MaskValues
    \/ Aggregate
    \/ \E p \in Owners : Respond(p)
    \/ Reveal
    \/ DecodeHashed
    \/ DecodeOneHot

SpecConcurrent == Init /\ [][NextConcurrent]_vars

\* ------------------------------------------------------ value round trip
\* The strings over Chars of length at most MaxStrLen.
MaxStrLen == 3

Strings == UNION {[1..n -> Chars] : n \in 0..MaxStrLen}

\* The value encoder of the strategy applied to s, and values2string
\* applied to what it returned.
RoundTrip(s) ==
    /\ rt_enc = NotRun
    /\ rt_in' = s
    /\ rt_enc' = EncodeValue(strategy, s)
    /\ rt_dec' = IF rt_enc'.ok
                 THEN values2string(int2char(strategy), rt_enc'.val)
                 ELSE <<>>
    /\ UNCHANGED <<strategy, db, adder, mt_key, mt_query, mt_out, dc_in, dc_out>>

NextCodec == \E s \in Strings : RoundTrip(s)

SpecCodec == Init /\ [][NextCodec]_vars

\* ------------------------------------------------------------ key match
\* The strings a key and a query are drawn from.
MatchChars == {"a", "b", ".", "A"}

MatchStrings == UNION {[1..n -> MatchChars] : n \in 0..(max_key_len + 1)}

\* The one-hot class's match of a stored key k with a query q: both are
\* encoded by string2one_hot_matrix, then the row sums of the product and
\* the loop over them.
MatchKeys(k, q) ==
    /\ strategy = "one_hot"
    /\ mt_out = NotRun
    /\ mt_key' = k
    /\ mt_query' = q
    /\ LET key == string2one_hot_matrix(k, max_key_len)
           qry == string2one_hot_matrix(q, max_key_len)
       IN  mt_out' = IF ~key.ok THEN key
                     ELSE IF ~qry.ok THEN qry
                     ELSE LET vect == RowSums(key.val, qry.val)
                          IN  Ok([key   |-> key.val,
                                  query |-> qry.val,
                                  vect  |-> vect,
                                  prods |-> RunningProducts(vect),
                                  x     |-> OneHotMatch(key.val, qry.val)])
    /\ UNCHANGED <<strategy, db, adder, rt_in, rt_enc, rt_dec, dc_in, dc_out>>

\* One match is computed in a behaviour.
NextMatch ==
    /\ mt_out = NotRun
    /\ \E k \in MatchStrings, q \in MatchStrings : MatchKeys(k, q)

SpecMatch == Init /\ [][NextMatch]_vars

\* --------------------------------------------------------------- decode
\* The codes values2string is given: one below the table, the codes of the
\* table, the sums of two of them, and the largest element of the ring.
DecodeCodes == ((0 - 1)..(2 * (Len(Int2CharHashed) - 1))) \cup {Field - 1}

CodeSeqs == UNION {[1..n -> DecodeCodes] : n \in 0..max_value_len}

\* values2string applied to a tensor of codes, with the table of the
\* strategy.
Decode(codes) ==
    /\ dc_in' = codes
    /\ dc_out' = Ok(values2string(int2char(strategy), codes))
    /\ UNCHANGED <<strategy, db, adder, rt_in, rt_enc, rt_dec,
                   mt_key, mt_query, mt_out>>

\* One tensor is decoded in a behaviour.
NextDecode ==
    /\ dc_out = NotRun
    /\ \E codes \in CodeSeqs : Decode(codes)

SpecDecode == Init /\ [][NextDecode]_vars

\* -------------------------------------------------------------- claims
\* The specification's vocabulary, stated apart from the code's encoders.

\* pad_or_truncate(s, n): s cut to n characters, padded to n with ".".
pad_or_truncate(s, n) == [i \in 1..n |-> IF i <= Len(s) THEN s[i] ELSE "."]

\* s cut to n characters.
truncated(s, n) == [i \in 1..(IF Len(s) < n THEN Len(s) ELSE n) |-> s[i]]

\* s in lower case.
ToLower(s) == [i \in 1..Len(s) |-> IF s[i] = "A" THEN "a" ELSE s[i]]

\* The characters of the one-hot cell's alphabet.
OneHotAlphabet == {" ", "a", "b", ".", "~"}

\* A query has ended: it returned or it raised.
QueryEnded == pc \in {"Done", "Raised"}

\* The encoded query exists (it has been computed by this attempt).
HasQuery == pc \in {"Sharing", "Matching", "Masking", "Aggregating",
                    "Revealing", "Decoding", "Done"}
            \/ (pc = "Raised" /\ error # "KeyError")

\* The records whose key encoding equals the query's.
Matched == {i \in 1..Len(keys) : keys[i].plain = query.plain}

\* The stored key encodings are pairwise distinct.
DistinctKeys ==
    \A i, j \in 1..Len(keys) : i # j => keys[i].plain # keys[j].plain

\* What counts as value v "up to the pad/truncate to the fixed width".
UpToWidth(v) ==
    {v, truncated(v, max_value_len), pad_or_truncate(v, max_value_len)}

\* The equality protocol reconstructed exactly in this attempt.
NoNoise == \A i \in 1..Len(key_match) : key_match[i] \in {0, 1}

\* The stored value encodings have one length.
SameWidth ==
    \A i, j \in 1..Len(values) : Len(values[i].plain) = Len(values[j].plain)

\* C1: with pairwise distinct encoded keys, a query for the key of a stored
\* entry returns that entry's value, up to the pad/truncate to the fixed
\* width, in both strategies (here: when the stored values have one length
\* and the equality protocol reconstructed exactly).
C1_QueryReturnsValue ==
    (QueryEnded /\ DistinctKeys /\ SameWidth /\ NoNoise) =>
        \A i \in 1..Len(entries) :
            entries[i][1] = query_str =>
                (pc = "Done" /\ result \in UpToWidth(entries[i][2]))

\* C2: a query whose encoding equals no stored key encoding never returns
\* a string.
C2_UnknownKeyNeverReturns ==
    ~(pc = "Done" /\ Matched = {})

\* The elementwise sum of the value encodings of the records in M.
RECURSIVE SumAt(_, _)
SumAt(M, j) ==
    IF M = {} THEN 0
    ELSE LET i == CHOOSE x \in M : TRUE
         IN  values[i].plain[j] + SumAt(M \ {i}, j)

SumOfValues(M) ==
    LET i0 == CHOOSE x \in M : TRUE
    IN  [j \in 1..Len(values[i0].plain) |-> SumAt(M, j)]

\* The records whose key encoding equals the encoding of query_str.
MatchedByString ==
    {i \in 1..Len(keys) : keys[i].plain = EncodeQuery(strategy, query_str).val}

\* The exact aggregate of this query decodes to sentinels only, whatever
\* the attempt.
SentinelForSure ==
    /\ MatchedByString # {}
    /\ SameWidth
    /\ CharSet(values2string(int2char(strategy), SumOfValues(MatchedByString)))
          = {"."}

\* C3: a query whose decode is all-sentinel on every attempt performs at
\* most max_retries retries.
C3_RetryBound ==
    (attempts >= 1 /\ all_sentinel /\ SentinelForSure) =>
        (attempts - 1 <= max_retries)

\* C4: in hashed-scalar mode an attempt is retried if and only if every
\* character of the decoded aggregate is the sentinel; any other decode is
\* returned (here: of attempts whose equality protocol reconstructed
\* exactly).
C4_RetryIffAllSentinel ==
    [][(pc = "Decoding" /\ strategy = "hashed_scalar" /\ NoNoise) =>
         ((pc' = "Done") <=>
            (CharSet(values2string(int2char(strategy), revealed)) # {"."}))]_vars

\* C5: when two or more stored entries have the query's key encoding, the
\* query reveals the elementwise sum of their value encodings and does not
\* fail (here: when the stored values have one length and the equality
\* protocol reconstructed exactly).
C5_DuplicateKeysSum ==
    (HasQuery /\ Cardinality(Matched) >= 2 /\ SameWidth /\ NoNoise) =>
        /\ pc # "Raised"
        /\ (pc \in {"Decoding", "Done"}) => (revealed = SumOfValues(Matched))

\* The match pattern a query string q produces over the store.
Pattern(q) ==
    [i \in 1..Len(keys) |-> keys[i].plain = EncodeQuery(strategy, q).val]

\* C6: what an owner receives in a query is the same for any two queries
\* over the same store that produce the same match pattern.
C6_SamePatternSameView ==
    (pc = "Matching" /\ Len(keys) > 0) =>
        \A q2 \in KeyInputs :
            (EncodeQuery(strategy, q2).ok /\ Pattern(q2) = Pattern(query_str)) =>
                Received("query",
                         Distribute(strategy, EncodeQuery(strategy, q2).val))
                    = Received("query", query)

\* C7: every key, value and query encoding reaches the owners as secret
\* shares across exactly the owners of the store; no owner receives one in
\* the clear.
C7_OnlyShares ==
    /\ \A p \in Owners : \A m \in inbox[p] : m.form = "shared"
    /\ \A i \in 1..Len(keys) : keys[i].owners = Owners
    /\ \A i \in 1..Len(values) : values[i].owners = Owners
    /\ (query.form # "none") => (query.form = "shared" /\ query.owners = Owners)

\* C8: the aggregate is reconstructed only when every owner has supplied
\* its share; until then the query has no plaintext and has not returned.
C8_RevealBarrier ==
    /\ (pc = "Revealing") => (revealed = <<>> /\ result = <<>>)
    /\ (revealed # <<>>) => (responded = Owners)
    /\ (pc \in {"Decoding", "Done"}) => (responded = Owners)

\* A query is waiting in get() for an owner that has not responded.
C8_Witness ==
    pc = "Revealing" /\ responded # {} /\ responded # Owners

\* C9: all stored value encodings have the one fixed length and all stored
\* key encodings have the one shape, whatever was added.
C9_FixedShapes ==
    /\ \A i, j \in 1..Len(values) :
          Len(values[i].plain) = Len(values[j].plain)
    /\ \A i, j \in 1..Len(keys) : Len(keys[i].plain) = Len(keys[j].plain)
    /\ (strategy = "one_hot") =>
          /\ \A i \in 1..Len(values) : Len(values[i].plain) = max_value_len
          /\ \A i \in 1..Len(keys) : Len(keys[i].plain) = max_key_len

C11_AppendOnly ==
    [][/\ Len(keys') = Len(entries')
       /\ Len(values') = Len(entries')
       /\ Len(entries') \in {Len(entries), Len(entries) + 1}
       /\ SubSeq(keys', 1, Len(keys)) = keys
       /\ SubSeq(values', 1, Len(values)) = values
       /\ (Len(entries') = Len(entries) + 1) =>
             LET n == Len(entries')
             IN  /\ keys'[n].plain = EncodeKey(strategy, entries'[n][1]).val
                 /\ values'[n].plain = EncodeValue(strategy, entries'[n][2]).val]_vars

\* Two records with one key encoding and different values are stored.
C11_Witness ==
    /\ Len(keys) >= 2
    /\ keys[1].plain = keys[2].plain
    /\ values[1].plain # values[2].plain

\* C12: with add_entry running next to a query, the masking step of the
\* query finds as many values as it has match scalars, each value next to
\* the match scalar of its own record, and does not raise.
C12_NoPartialRecord ==
    [][(pc = "Masking" /\ pc' # "Masking") =>
         /\ pc' = "Aggregating"
         /\ Len(value_match') = Len(key_match)
         /\ Len(values) = Len(keys)]_vars

\* C13: every step of a query (the call, each phase, a retry, the return,
\* an exception) leaves the stored keys and values as they were, and every
\* attempt starts from locals that hold nothing of an earlier query.
C13_QueryLeavesStore ==
    [][(pc' # "Idle") =>
         /\ keys' = keys
         /\ values' = values
         /\ (pc' = "Encoding") =>
               /\ query' = NoTensor
               /\ key_match' = <<>>
               /\ value_match' = <<>>
               /\ final_value' = <<>>
               /\ revealed' = <<>>
               /\ responded' = {}]_vars

\* A query over a store with records retried and ended in an exception.
C13_Witness ==
    /\ pc = "Raised"
    /\ attempts > 1
    /\ Len(keys) >= 1
    /\ Len(values) = Len(keys)

\* The phase that follows phase p within an attempt.
PhaseAfter(p) ==
    CASE p = "Encoding" -> "Sharing"
      [] p = "Sharing" -> "Matching"
      [] p = "Matching" -> "Masking"
      [] p = "Masking" -> "Aggregating"
      [] p = "Aggregating" -> "Revealing"
      [] p = "Revealing" -> "Decoding"

\* C14: a query attempt moves from each phase to the next one only; from
\* Decoding it returns (Done), or goes back to Encoding as the next attempt
\* within the retry ceiling, or ends as RetryExhausted; a query that has
\* ended goes to Encoding only as a new call (here: of steps that are not
\* an exception raised before Decoding, and of attempts whose equality
\* protocol reconstructed exactly).
C14_PhaseOrder ==
    [][(/\ pc' # pc
        /\ pc # "Idle"
        /\ pc' # "Idle"
        /\ ~(pc' = "Raised" /\ pc # "Decoding")
        /\ NoNoise) =>
         \/ /\ pc \in {"Encoding", "Sharing", "Matching", "Masking",
                        "Aggregating", "Revealing"}
            /\ pc' = PhaseAfter(pc)
            /\ attempts' = attempts
         \/ /\ pc = "Decoding"
            /\ pc' = "Done"
         \/ /\ pc = "Decoding"
            /\ pc' = "Encoding"
            /\ attempts' = attempts + 1
            /\ attempts' - 1 <= max_retries
         \/ /\ pc = "Decoding"
            /\ pc' = "RetryExhausted"
         \/ /\ pc \in {"Done", "Raised", "RetryExhausted"}
            /\ pc' = "Encoding"
            /\ attempts' = 1]_vars

\* The string has a character that is in neither alphabet table.
OffAlphabet(s) ==
    \E i \in 1..Len(s) :
        s[i] \notin (CharSet(Int2CharHashed) \cup CharSet(Int2CharOneHot))

\* C15: an add_entry whose key or value has a character outside the
\* alphabet ends in the error InvalidInput and appends neither a key nor a
\* value.
C15_InvalidInput ==
    [][\A k \in KeyInputs, v \in ValueInputs :
         (add_entry(k, v) /\ (OffAlphabet(k) \/ OffAlphabet(v))) =>
             /\ error' = "InvalidInput"
             /\ keys' = keys
             /\ values' = values]_vars

\* Every character of s is in the one-hot cell's alphabet.
OverAlphabet(s) == \A i \in 1..Len(s) : s[i] \in OneHotAlphabet

\* C16: in one-hot mode, for a key and a query over the alphabet, every row
\* sum of the elementwise product and every value of the running product
\* is 0 or 1, and the match scalar is 1 when the key and the query, cut or
\* padded to max_key_len, agree at every position, and 0 otherwise.
C16_ProductsAreBits ==
    (mt_out # NotRun /\ OverAlphabet(mt_key) /\ OverAlphabet(mt_query)) =>
        /\ mt_out.ok
        /\ Len(mt_out.val.vect) = max_key_len
        /\ \A i \in 1..Len(mt_out.val.vect) : mt_out.val.vect[i] \in {0, 1}
        /\ \A i \in 1..Len(mt_out.val.prods) : mt_out.val.prods[i] \in {0, 1}
        /\ mt_out.val.x =
              IF pad_or_truncate(mt_key, max_key_len)
                    = pad_or_truncate(mt_query, max_key_len)
              THEN 1 ELSE 0

\* A key longer than max_key_len matched a different query string that
\* agrees with it on the first max_key_len characters.
C16_Witness ==
    /\ mt_out.ok
    /\ OverAlphabet(mt_key)
    /\ OverAlphabet(mt_query)
    /\ Len(mt_key) > max_key_len
    /\ mt_key # mt_query
    /\ mt_out.val.x = 1

\* The zero vector of length n.
Zeros(n) == [j \in 1..n |-> 0]

\* The masked values of this attempt have been computed.
Masked == pc \in {"Aggregating", "Revealing", "Decoding", "Done"}

\* C17: in every attempt the masked value of a record is the zero vector
\* when its key encoding differs from the query's and its value encoding
\* when they are equal; with pairwise distinct key encodings at most one
\* masked value is not the zero vector.
C17_MaskedZeroOrValue ==
    Masked =>
        /\ Len(value_match) = Len(values)
        /\ \A i \in 1..Len(value_match) :
              value_match[i] = IF keys[i].plain = query.plain
                               THEN values[i].plain
                               ELSE Zeros(Len(values[i].plain))
        /\ DistinctKeys =>
              Cardinality({i \in 1..Len(value_match) :
                             value_match[i] # Zeros(Len(value_match[i]))}) <= 1

\* The get calls of this query, and its calls that distribute the query.
GetCalls == {i \in 1..Len(calls) : calls[i][2] = "get"}

QueryShares ==
    {i \in 1..Len(calls) : calls[i][2] \in {"share", "send"}
                            /\ calls[i][3] = "query"}

\* C19: the only tensor a query reconstructs with get() is final_value, at
\* most once in an attempt, and what it reconstructed is the aggregate; no
\* match scalar, row sum or masked value is reconstructed or sent to an
\* owner.
C19_OnlyFinalValueRevealed ==
    /\ \A i \in GetCalls : calls[i][3] = "final_value"
    /\ \A i, j \in GetCalls : (i # j) => (calls[i][1] # calls[j][1])
    /\ (pc \in {"Decoding", "Done"}) =>
          /\ revealed = final_value
          /\ \E i \in GetCalls : calls[i][1] = attempts
    /\ (pc \in {"Encoding", "Sharing", "Matching", "Masking", "Aggregating",
                 "Revealing"}) =>
          /\ revealed = <<>>
          /\ \A i \in GetCalls : calls[i][1] < attempts
    /\ \A p \in Owners : \A m \in inbox[p] :
          m.what \in {"key", "value", "query"}

\* A query in its second attempt or later has reconstructed the aggregate
\* of each attempt.
C19_Witness ==
    /\ pc = "Decoding"
    /\ attempts >= 2
    /\ Cardinality(GetCalls) = attempts
    /\ Len(keys) >= 1

\* C20: every attempt of a query encodes the query again and distributes
\* it with a call of its own: before the sharing step the attempt holds no
\* query tensor, after it the query tensor is the one distributed in this
\* attempt, and no two attempts have a distribution in common.
C20_FreshQueryShares ==
    /\ (pc \in {"Encoding", "Sharing"}) =>
          /\ query.form = "none"
          /\ \A i \in QueryShares : calls[i][1] < attempts
    /\ (pc \in {"Matching", "Masking", "Aggregating", "Revealing",
                 "Decoding", "Done"}) =>
          /\ query.form # "none"
          /\ Cardinality({i \in QueryShares : calls[i][1] = attempts}) = 1
    /\ \A i, j \in QueryShares : (i # j) => (calls[i][1] # calls[j][1])
    /\ Cardinality(QueryShares) \in {attempts - 1, attempts}

\* A retry has distributed the query again.
C20_Witness ==
    /\ strategy = "hashed_scalar"
    /\ pc = "Matching"
    /\ attempts >= 2
    /\ Cardinality(QueryShares) = attempts

\* The number of 1s and of 0s in a row.
Count(row, b) == Cardinality({j \in 1..Len(row) : row[j] = b})

\* C21: the one-hot encoding of a key over the alphabet has exactly
\* max_key_len rows, each as long as the alphabet with one 1 and zeros
\* elsewhere; two keys have the same encoding, and match, exactly when they
\* are equal once cut to max_key_len characters and padded to it with the
\* pad symbol.
C21_OneHotKeyEncoding ==
    (mt_out # NotRun /\ OverAlphabet(mt_key) /\ OverAlphabet(mt_query)) =>
        /\ mt_out.ok
        /\ Len(mt_out.val.key) = max_key_len
        /\ \A i \in 1..Len(mt_out.val.key) :
              LET row == mt_out.val.key[i]
              IN  /\ Len(row) = Cardinality(OneHotAlphabet)
                  /\ Count(row, 1) = 1
                  /\ Count(row, 0) = Len(row) - 1
        /\ (mt_out.val.key = mt_out.val.query) <=>
              (pad_or_truncate(mt_key, max_key_len)
                  = pad_or_truncate(mt_query, max_key_len))
        /\ (mt_out.val.x = 1) <=> (mt_out.val.key = mt_out.val.query)

\* A key shorter than max_key_len has the encoding of a different string,
\* one that is longer than max_key_len.
C21_Witness ==
    /\ mt_out.ok
    /\ OverAlphabet(mt_key)
    /\ OverAlphabet(mt_query)
    /\ Len(mt_key) < max_key_len
    /\ Len(mt_query) > max_key_len
    /\ mt_out.val.key = mt_out.val.query

\* The characters the encoder of the strategy gives code v.
CharsOfCode(v) ==
    {c \in CharSet(int2char(strategy)) : char2int(int2char(strategy), c) = v}

\* C22: values2string returns, for any tensor of integer codes, a string
\* of the tensor's length: the character of every code of the alphabet
\* table and the sentinel "." for every other code (negative, a sum of two
\* codes, the largest element of the ring); it does not fail.
C22_DecodeTotal ==
    (dc_out # NotRun) =>
        /\ dc_out.ok
        /\ Len(dc_out.val) = Len(dc_in)
        /\ \A i \in 1..Len(dc_in) :
              IF CharsOfCode(dc_in[i]) # {}
              THEN dc_out.val[i] \in CharsOfCode(dc_in[i])
              ELSE dc_out.val[i] = "."

\* A tensor with a code of the table and a code past its end was decoded.
C22_Witness ==
    /\ dc_out.ok
    /\ \E i, j \in 1..Len(dc_in) :
          /\ CharsOfCode(dc_in[i]) # {}
          /\ dc_out.val[i] # "."
          /\ dc_in[j] >= Len(int2char(strategy))
          /\ dc_out.val[j] = "."

\* C23: a query for the key of a stored entry whose value contains ".",
\* the key encodings being pairwise distinct, is answered at its first
\* attempt with the stored value, the "." included (here: up to the case of
\* letters, when the stored values have one length and the equality
\* protocol reconstructed exactly).
C23_DotValueReturned ==
    (attempts >= 1 /\ DistinctKeys /\ SameWidth /\ NoNoise) =>
        \A i \in 1..Len(entries) :
            (entries[i][1] = query_str /\ "." \in CharSet(entries[i][2])) =>
                /\ attempts = 1
                /\ pc # "Raised"
                /\ (pc = "Done") =>
                      (result \in {entries[i][2], ToLower(entries[i][2])})

\* C24: a query over a store without records does not get past the
\* aggregation: it is in a phase up to Aggregating or has raised an
\* exception, in its first attempt, it has returned no string, and the
\* store is still empty.
C24_EmptyStoreQueryRaises ==
    (entries = <<>> /\ pc # "Idle") =>
        /\ pc \in {"Encoding", "Sharing", "Matching", "Masking",
                    "Aggregating", "Raised"}
        /\ attempts = 1
        /\ result = <<>>
        /\ revealed = <<>>
        /\ (pc = "Raised") => (error \in {"IndexError", "KeyError"})
        /\ keys = <<>>
        /\ values = <<>>

\* A query over the empty store has raised IndexError at the aggregation.
C24_Witness ==
    /\ entries = <<>>
    /\ pc = "Raised"
    /\ error = "IndexError"
    /\ key_match = <<>>
    /\ value_match = <<>>
    /\ query.form # "none"

====
